---- MODULE Spec2Model ----
(***************************************************************************)
(* Behavioural learning pipeline of the contextual search platform:        *)
(*   - EventProcessor (app/workers/event_processor.py): an asyncio queue   *)
(*     with start(), stop(), push_event() and the worker coroutine         *)
(*     _process_events() / _handle_event();                                *)
(*   - LearningService (app/services/learning_service.py) and              *)
(*     BehaviorScore (app/models/event.py): the per-product counters, the  *)
(*     derived rates and the behaviour score;                              *)
(*   - SearchService.search (app/services/search_service.py): the          *)
(*     impression write path that runs outside the queue, with             *)
(*     RankingService.rank_results (app/services/ranking_service.py);      *)
(*   - the reconciliation pass LearningService.recalculate_all_scores.     *)
(*                                                                         *)
(* Everything runs on one asyncio event loop.  A step of the model is the  *)
(* code a coroutine runs between two suspension points (await), so the     *)
(* interleavings of the model are the interleavings of the event loop.     *)
(* Rates are exact rationals [n, d] in lowest terms.                       *)
(***************************************************************************)
EXTENDS Integers, Sequences, FiniteSets, TLC

\* ---------------------------------------------------------------- bounds
MaxEvents == 3        \* track_event calls in one behaviour
MaxTasks == 2         \* worker tasks start() may create in one behaviour
MaxStops == 2         \* stop() calls in one behaviour
MaxSearches == 2      \* search requests in one behaviour
MaxRows == 4          \* events the learning service commits in one behaviour
MaxImpressions == 1   \* impression batches it records in one behaviour

\* ------------------------------------------------------------- constants
QueueMaxSize == 0     \* asyncio.Queue(): maxsize 0, the queue is unbounded
DwellOptimal == 60    \* calculate_score: 60 seconds is the optimal dwell

None == "None"
Products == {"P1", "P2"}      \* ids that have a Product row
UnknownPid == "PX"            \* an id without a Product row
AllPids == Products \cup {UnknownPid}
SearchIds == 1 .. MaxSearches \* one slot per search request
TaskIds == 1 .. MaxTasks

\* What a client may post (EventCreate): event_type, product_id,
\* dwell_time_seconds.  The other fields are copied and never read.
Payloads ==
  { [type |-> "click",      pid |-> "P1",       dwell |-> 0],
    [type |-> "dwell_time", pid |-> "P1",       dwell |-> 3],
    [type |-> "search",     pid |-> None,       dwell |-> 0],
    [type |-> "click",      pid |-> UnknownPid, dwell |-> 0] }

\* Where the storage layer may raise while one event is handled.
FailPoints == {"none", "flush", "apply"}

\* ------------------------------------------------------------- rationals
\* Euclid's algorithm; the arguments of the recursive call are bound to
\* their values before the call.
RECURSIVE GCD(_, _)
GCD(a, b) ==
  IF b = 0
    THEN a
    ELSE CHOOSE g \in {GCD(p[1], p[2]) : p \in {<<b, a % b>>}} : TRUE

\* the fraction n/d, d > 0, in lowest terms
Norm(n, d) ==
  CHOOSE r \in {[n |-> n \div g, d |-> d \div g] :
                  g \in {GCD(IF n < 0 THEN 0 - n ELSE n, d)}} : TRUE

RZero == [n |-> 0, d |-> 1]
ROne == [n |-> 1, d |-> 1]

\* ---------------------------------------------------------- BehaviorScore
NoRow == [absent |-> TRUE]

\* BehaviorScore(product_id=...): the column defaults.
NewScore ==
  [ impression_count |-> 0, click_count |-> 0, cart_count |-> 0,
    purchase_count |-> 0, total_dwell_time |-> 0,
    click_rate |-> RZero, cart_rate |-> RZero, conversion_rate |-> RZero,
    avg_dwell_time |-> RZero, bounce_rate |-> RZero,
    behavior_score |-> RZero ]

ScoreFields == DOMAIN NewScore

\* (variant: the weighted sum is stored without the clamp)
calculate_scoreM(s) ==
  LET cr == s.click_rate
      ca == s.cart_rate
      co == s.conversion_rate
      av == s.avg_dwell_time
      br == s.bounce_rate
      nd == IF av.n # 0
              THEN IF av.n >= DwellOptimal * av.d
                     THEN ROne
                     ELSE [n |-> av.n, d |-> DwellOptimal * av.d]
              ELSE RZero
      den == 10 * cr.d * ca.d * co.d * nd.d * br.d
      num == 3 * cr.n * (ca.d * co.d * nd.d * br.d)
             + 3 * ca.n * (cr.d * co.d * nd.d * br.d)
             + 3 * co.n * (cr.d * ca.d * nd.d * br.d)
             + 1 * nd.n * (cr.d * ca.d * co.d * br.d)
             - 2 * br.n * (cr.d * ca.d * co.d * nd.d)
  IN Norm(num, den)

\* (variant: the normalised dwell is not capped at 1)
calculate_scoreU(s) ==
  LET cr == s.click_rate
      ca == s.cart_rate
      co == s.conversion_rate
      av == s.avg_dwell_time
      br == s.bounce_rate
      nd == IF av.n # 0 THEN [n |-> av.n, d |-> DwellOptimal * av.d]
            ELSE RZero
      den == 10 * cr.d * ca.d * co.d * nd.d * br.d
      num == 3 * cr.n * (ca.d * co.d * nd.d * br.d)
             + 3 * ca.n * (cr.d * co.d * nd.d * br.d)
             + 3 * co.n * (cr.d * ca.d * nd.d * br.d)
             + 1 * nd.n * (cr.d * ca.d * co.d * br.d)
             - 2 * br.n * (cr.d * ca.d * co.d * nd.d)
  IN IF num < 0 THEN RZero
     ELSE IF num > den THEN ROne
     ELSE Norm(num, den)

\* BehaviorScore.calculate_score: the weighted sum over the common
\* denominator den, clamped to [0, 1].
calculate_score(s) ==
  LET cr == s.click_rate
      ca == s.cart_rate
      co == s.conversion_rate
      av == s.avg_dwell_time
      br == s.bounce_rate
      normalized_dwell ==
        IF av.n # 0
          THEN IF av.n >= DwellOptimal * av.d
                 THEN ROne
                 ELSE [n |-> av.n, d |-> DwellOptimal * av.d]
          ELSE RZero
      nd == normalized_dwell
      den == 10 * cr.d * ca.d * co.d * nd.d * br.d
      num == 3 * cr.n * (ca.d * co.d * nd.d * br.d)
             + 3 * ca.n * (cr.d * co.d * nd.d * br.d)
             + 3 * co.n * (cr.d * ca.d * nd.d * br.d)
             + 1 * nd.n * (cr.d * ca.d * co.d * br.d)
             - 2 * br.n * (cr.d * ca.d * co.d * nd.d)
  IN IF num < 0 THEN RZero
     ELSE IF num > den THEN ROne
     ELSE Norm(num, den)

\* (variant: a zero click_count is replaced by 1 in the average)
update_ratesM(s) ==
  LET s1 == IF s.impression_count > 0
              THEN [s EXCEPT !.click_rate =
                                Norm(s.click_count, s.impression_count)]
              ELSE s
      s2 == IF s1.click_count > 0
              THEN [s1 EXCEPT
                     !.cart_rate = Norm(s1.cart_count, s1.click_count),
                     !.conversion_rate =
                        Norm(s1.purchase_count, s1.click_count),
                     !.avg_dwell_time =
                        Norm(s1.total_dwell_time, s1.click_count)]
              ELSE [s1 EXCEPT !.avg_dwell_time = Norm(s1.total_dwell_time, 1)]
  IN [s2 EXCEPT !.behavior_score = calculate_score(s2)]

\* BehaviorScore.update_rates
update_rates(s) ==
  LET s1 == IF s.impression_count > 0
              THEN [s EXCEPT !.click_rate =
                                Norm(s.click_count, s.impression_count)]
              ELSE s
      s2 == IF s1.click_count > 0
              THEN [s1 EXCEPT
                     !.cart_rate = Norm(s1.cart_count, s1.click_count),
                     !.conversion_rate =
                        Norm(s1.purchase_count, s1.click_count),
                     !.avg_dwell_time =
                        Norm(s1.total_dwell_time, s1.click_count)]
              ELSE s1
  IN [s2 EXCEPT !.behavior_score = calculate_score(s2)]

\* -------------------------------------------------------- LearningService
\* LearningService._get_or_create_score: the stored row, or a new one.
get_or_create_score(db, pid) ==
  IF db[pid] = NoRow THEN NewScore ELSE db[pid]

\* (variant: a search event counts as an impression)
ApplyCounterS(s, e) ==
  CASE e.type = "click" -> [s EXCEPT !.click_count = @ + 1]
    [] e.type = "add_to_cart" -> [s EXCEPT !.cart_count = @ + 1]
    [] e.type = "purchase" -> [s EXCEPT !.purchase_count = @ + 1]
    [] e.type = "dwell_time" /\ e.dwell # 0 ->
         [s EXCEPT !.total_dwell_time = @ + e.dwell]
    [] e.type = "search" -> [s EXCEPT !.impression_count = @ + 1]
    [] OTHER -> s

\* (variant: a dwell under the threshold sets the bounce rate)
ApplyCounterB(s, e) ==
  CASE e.type = "click" -> [s EXCEPT !.click_count = @ + 1]
    [] e.type = "add_to_cart" -> [s EXCEPT !.cart_count = @ + 1]
    [] e.type = "purchase" -> [s EXCEPT !.purchase_count = @ + 1]
    [] e.type = "dwell_time" /\ e.dwell # 0 ->
         [s EXCEPT !.total_dwell_time = @ + e.dwell,
                   !.bounce_rate = IF e.dwell < 5 THEN ROne ELSE @]
    [] OTHER -> s

\* (variant: a dwell replaces the total instead of adding to it)
ApplyCounterD(s, e) ==
  CASE e.type = "click" -> [s EXCEPT !.click_count = @ + 1]
    [] e.type = "add_to_cart" -> [s EXCEPT !.cart_count = @ + 1]
    [] e.type = "purchase" -> [s EXCEPT !.purchase_count = @ + 1]
    [] e.type = "dwell_time" /\ e.dwell # 0 ->
         [s EXCEPT !.total_dwell_time = e.dwell]
    [] OTHER -> s

\* LearningService.process_event: the counter an event type changes.
ApplyCounter(s, e) ==
  CASE e.type = "click" -> [s EXCEPT !.click_count = @ + 1]
    [] e.type = "add_to_cart" -> [s EXCEPT !.cart_count = @ + 1]
    [] e.type = "purchase" -> [s EXCEPT !.purchase_count = @ + 1]
    [] e.type = "dwell_time" /\ e.dwell # 0 ->
         [s EXCEPT !.total_dwell_time = @ + e.dwell]
    [] OTHER -> s

\* LearningService.process_event on the table of BehaviorScore rows.
process_event(db, e) ==
  IF e.pid = None
    THEN db
    ELSE [db EXCEPT
           ![e.pid] = update_rates(ApplyCounter(get_or_create_score(db, e.pid), e))]

\* The object a session hands out for a product: the instance already in
\* its identity map when there is one, else the row read now.
SessionObject(loaded, db, pid) ==
  IF loaded[pid] # NoRow THEN loaded[pid] ELSE get_or_create_score(db, pid)

\* Session flush: an UPDATE writes only the attributes that differ from the
\* values the instance was loaded with; a new instance is INSERTed whole.
Flush(row, base, obj) ==
  IF row = NoRow
    THEN obj
    ELSE [f \in ScoreFields |-> IF obj[f] # base[f] THEN obj[f] ELSE row[f]]

\* LearningService.record_impressions_batch, through the request's session.
record_impressions_batch(db, loaded, ids) ==
  [pid \in AllPids |->
     IF pid \in ids
       THEN LET base == SessionObject(loaded, db, pid)
                obj == update_rates([base EXCEPT !.impression_count = @ + 1])
            IN Flush(db[pid], base, obj)
       ELSE db[pid]]

\* LearningService.BOUNCE_THRESHOLD: a dwell under 5 seconds is a bounce.
BounceThreshold == 5

\* The Event rows of a product with one event type: the filter of the
\* count queries of recalculate_all_scores.
RowsOf(rows, pid, type) ==
  {i \in 1 .. Len(rows) : rows[i].pid = pid /\ rows[i].type = type}

\* func.sum(Event.dwell_time_seconds) over the dwell_time rows of a product
RECURSIVE DwellSum(_, _)
DwellSum(rows, pid) ==
  IF rows = <<>>
    THEN 0
    ELSE LET e == Head(rows)
             rest == CHOOSE t \in {DwellSum(Tail(rows), pid)} : TRUE
         IN IF e.pid = pid /\ e.type = "dwell_time" THEN e.dwell + rest
            ELSE rest

\* (variant: the recomputed dwell total is added to the stored one)
RecalcDwellM(old, total) == old + total

\* recalculate_all_scores, line 133: total_dwell_time is set to the sum.
RecalcDwell(old, total) == total

\* (variant: the ratio is inverted)
BounceRateM(low, n) == IF low = 0 THEN RZero ELSE Norm(n, low)

\* recalculate_all_scores, line 150: low-dwell rows over dwell rows.
BounceRate(low, n) == Norm(low, n)

\* recalculate_all_scores, the body of the loop for one product: counters
\* from the Event rows, bounce_rate when there are dwell rows, update_rates.
\* A dwell of 0 stands for a row without dwell_time_seconds.
recalculate_score(row, rows, pid) ==
  LET dwells == RowsOf(rows, pid, "dwell_time")
      low == {i \in dwells : rows[i].dwell # 0 /\ rows[i].dwell < BounceThreshold}
      s1 == [row EXCEPT
               !.impression_count = Cardinality(RowsOf(rows, pid, "search")),
               !.click_count = Cardinality(RowsOf(rows, pid, "click")),
               !.cart_count = Cardinality(RowsOf(rows, pid, "add_to_cart")),
               !.purchase_count = Cardinality(RowsOf(rows, pid, "purchase")),
               !.total_dwell_time = RecalcDwell(@, DwellSum(rows, pid))]
      s2 == IF dwells # {}
              THEN [s1 EXCEPT !.bounce_rate =
                      BounceRate(Cardinality(low), Cardinality(dwells))]
              ELSE s1
  IN update_rates(s2)

\* recalculate_all_scores over the products in done: what the session of
\* the request holds when the loop has recomputed them.
recalculate_all_scores(db, rows, done) ==
  [pid \in AllPids |->
     IF pid \in done
       THEN recalculate_score(get_or_create_score(db, pid), rows, pid)
       ELSE db[pid]]

\* (variant: what the pass had recomputed is stored)
AfterFailedPassM(before, partial) == partial

\* The store after a pass that raised: the only commit is after the loop
\* (line 155) and get_db_session closes the session without committing,
\* which rolls the transaction back.
AfterFailedPass(before, partial) == before

\* --------------------------------------------------------- RankingService
\* settings.semantic_weight = 0.6 and settings.behavior_weight = 0.4
semantic_weight == [n |-> 6, d |-> 10]
behavior_weight == [n |-> 4, d |-> 10]

\* (variant: the two weights are exchanged)
FinalScoreM(sem, beh) ==
  Norm(sem.n * behavior_weight.n * beh.d * semantic_weight.d
         + beh.n * semantic_weight.n * sem.d * behavior_weight.d,
       sem.d * behavior_weight.d * beh.d * semantic_weight.d)

\* rank_results, lines 53-56: semantic * semantic_weight + behavior *
\* behavior_weight
FinalScore(sem, beh) ==
  Norm(sem.n * semantic_weight.n * beh.d * behavior_weight.d
         + beh.n * behavior_weight.n * sem.d * semantic_weight.d,
       sem.d * semantic_weight.d * beh.d * behavior_weight.d)

\* (variant: the behaviour term is subtracted)
WeightedScoreM(sem, beh, sw, bw) ==
  Norm(sem.n * sw.n * beh.d * bw.d - beh.n * bw.n * sem.d * sw.d,
       sem.d * sw.d * beh.d * bw.d)

\* The same sum for a RankingService constructed with other settings:
\* __init__ copies settings.semantic_weight and settings.behavior_weight.
WeightedScore(sem, beh, sw, bw) ==
  Norm(sem.n * sw.n * beh.d * bw.d + beh.n * bw.n * sem.d * sw.d,
       sem.d * sw.d * beh.d * bw.d)

\* LearningService.get_behavior_scores_batch followed by
\* behavior_scores.get(product_id, 0.0)
BehaviorOf(db, pid) ==
  IF db[pid] # NoRow THEN db[pid].behavior_score ELSE RZero

\* rank_results, the loop: one tuple per candidate, in the given order
ScoredCandidates(db, cands) ==
  [i \in 1 .. Len(cands) |->
     [pid |-> cands[i].pid,
      semantic_score |-> cands[i].semantic_score,
      behavior_score |-> BehaviorOf(db, cands[i].pid),
      final_score |-> FinalScore(cands[i].semantic_score,
                                 BehaviorOf(db, cands[i].pid))]]

\* a fraction is smaller than another
RLess(a, b) == a.n * b.d < b.n * a.d

\* t put into a list sorted by final_score, largest first, behind the
\* tuples that are not smaller
RECURSIVE InsertDesc(_, _)
InsertDesc(t, sorted) ==
  IF sorted = <<>>
    THEN <<t>>
    ELSE IF RLess(Head(sorted).final_score, t.final_score)
      THEN <<t>> \o sorted
      ELSE <<Head(sorted)>> \o InsertDesc(t, Tail(sorted))

\* results.sort(key=lambda x: x[3], reverse=True): a stable sort, tuples
\* with equal final_score keep their order.
RECURSIVE SortDesc(_)
SortDesc(seq) ==
  IF seq = <<>>
    THEN <<>>
    ELSE InsertDesc(seq[Len(seq)], SortDesc(SubSeq(seq, 1, Len(seq) - 1)))

\* RankingService.rank_results
rank_results(db, cands) == SortDesc(ScoredCandidates(db, cands))

\* rank_results of a RankingService with weights sw and bw
rank_results_with(db, cands, sw, bw) ==
  SortDesc([i \in 1 .. Len(cands) |->
     [pid |-> cands[i].pid,
      semantic_score |-> cands[i].semantic_score,
      behavior_score |-> BehaviorOf(db, cands[i].pid),
      final_score |-> WeightedScore(cands[i].semantic_score,
                                    BehaviorOf(db, cands[i].pid), sw, bw)]])

\* a fraction times a fraction
RTimes(a, b) == Norm(a.n * b.n, a.d * b.d)

\* apply_boost, lines 76-79: final *= boost_factor for a boosted id
BoostFinal(t, ids, factor) ==
  IF t.pid \in ids THEN [t EXCEPT !.final_score = RTimes(@, factor)] ELSE t

\* RankingService.apply_boost: the boosted tuples, sorted again
apply_boost(results, ids, factor) ==
  SortDesc([i \in 1 .. Len(results) |-> BoostFinal(results[i], ids, factor)])

\* ---------------------------------------------------------- SearchService
\* search(), line 80: the number of candidates asked of the vector store
CandidatesRequested(top_k) == top_k * 2

\* VectorStore.search: the n best matches, best first
VectorSearch(store, n) ==
  SubSeq(store, 1, IF n < Len(store) THEN n ELSE Len(store))

\* ranked_results[:query.top_k]
Truncate(ranked, top_k) ==
  SubSeq(ranked, 1, IF top_k < Len(ranked) THEN top_k ELSE Len(ranked))

\* search(), lines 117-121: the tuples whose product id has a Product row
WithProduct(top) == SelectSeq(top, LAMBDA t : t.pid \in Products)

PidsOf(seq) == {seq[i].pid : i \in 1 .. Len(seq)}

\* ---------------------------------------------------------------- state
VARIABLES
  is_running,       \* EventProcessor.is_running
  task,             \* EventProcessor._task: id of the last task, 0 for None
  tasks,            \* every worker task: "absent", "created", "waiting", "done"
  queue,            \* EventProcessor.queue: the items
  unfinished,       \* asyncio.Queue._unfinished_tasks
  processed_count,  \* EventProcessor.processed_count
  stopPc,           \* where the stop() call is
  events,           \* rows of the events table, in commit order
  scores,           \* rows of the behavior_scores table, by product id
  searchPc,         \* where each search request is
  searchLoaded,     \* BehaviorScore instances in each request's session
  searchRes,        \* result_product_ids of each request
  \* history
  nextId,           \* id of the next enqueued event
  acks,             \* "accepted" answers returned by track_event
  blockedPuts,      \* track_event calls suspended in queue.put
  handled,          \* the handlings so far: [id, ok], in order
  applied,          \* counter increments committed, by product id
  stopCalls,        \* stop() calls so far
  searches,         \* search requests so far
  enqOffRun,        \* an event was enqueued while not running or draining
  enqDrain,         \* ids of the events enqueued while stop() was draining
  stopDepth,        \* items not yet done when stop() was last called
  lastOp,           \* the last LearningService operation on the store
  \* one search request seen from its inputs to its answer
  rankIn,           \* the vector store's matches, best first, and top_k
  rankOut           \* rank_results' list and the results returned

procVars == <<is_running, task, tasks, queue, unfinished, processed_count, stopPc>>
dbVars == <<events, scores>>
searchVars == <<searchPc, searchLoaded, searchRes, searches>>
histVars == <<nextId, acks, blockedPuts, handled, applied, stopCalls,
              enqOffRun, enqDrain, stopDepth, lastOp, rankIn, rankOut>>
vars == <<procVars, dbVars, searchVars, histVars>>

NoCounts == [impression_count |-> 0, click_count |-> 0, cart_count |-> 0,
             purchase_count |-> 0, total_dwell_time |-> 0]
CounterFields == DOMAIN NoCounts
NothingLoaded == [pid \in AllPids |-> NoRow]

Alive(w) == tasks[w] \in {"created", "waiting"}
Draining == stopPc \in {"join", "woken", "awaitTask"}

\* no LearningService operation yet
NoOp == [op |-> "none", done |-> {}, runs |-> 0]
\* no search request, no answer
NoQuery == [store |-> <<>>, top_k |-> 1]
NoBoost == [ids |-> {}, factor |-> ROne, list |-> <<>>, done |-> FALSE]
NoAnswer == [ranked |-> <<>>, results |-> <<>>, answered |-> FALSE,
             boost |-> NoBoost]

\* EventProcessor.__init__ and the empty events table.
InitProcessor ==
  /\ is_running = FALSE
  /\ task = 0
  /\ tasks = [w \in TaskIds |-> "absent"]
  /\ queue = <<>>
  /\ unfinished = 0
  /\ processed_count = 0
  /\ stopPc = "idle"
  /\ events = <<>>
  /\ searchPc = [s \in SearchIds |-> "idle"]
  /\ searchLoaded = [s \in SearchIds |-> NothingLoaded]
  /\ searchRes = [s \in SearchIds |-> {}]
  /\ nextId = 1
  /\ acks = 0
  /\ blockedPuts = 0
  /\ handled = <<>>
  /\ applied = [pid \in AllPids |-> NoCounts]
  /\ stopCalls = 0
  /\ searches = 0
  /\ enqOffRun = FALSE
  /\ enqDrain = {}
  /\ stopDepth = 0
  /\ lastOp = NoOp
  /\ rankOut = NoAnswer

\* The application after start-up: no BehaviorScore row yet (ingestion and
\* the learning service create them), no search request.
Init ==
  /\ InitProcessor
  /\ scores = [pid \in AllPids |-> NoRow]
  /\ rankIn = NoQuery

\* --------------------------------------------------------- EventProcessor
\* (variant: the queue holds one item at most)
PutBlocksM(q) == Len(q) >= 1

\* asyncio.Queue.put suspends only when a bounded queue is full.
PutBlocks(q) == QueueMaxSize > 0 /\ Len(q) >= QueueMaxSize

\* track_event -> EventProcessor.push_event -> queue.put, then the answer.
TrackEvent(p) ==
  /\ nextId <= MaxEvents
  /\ nextId' = nextId + 1
  /\ IF PutBlocks(queue)
       THEN /\ blockedPuts' = blockedPuts + 1
            /\ UNCHANGED <<queue, unfinished, acks>>
       ELSE /\ queue' = Append(queue, [id |-> nextId, type |-> p.type,
                                       pid |-> p.pid, dwell |-> p.dwell])
            /\ unfinished' = unfinished + 1
            /\ acks' = acks + 1
            /\ UNCHANGED blockedPuts
  /\ enqOffRun' = (enqOffRun \/ ~is_running \/ Draining)
  /\ enqDrain' = IF ~is_running /\ Draining
                   THEN enqDrain \cup {nextId} ELSE enqDrain
  /\ UNCHANGED <<is_running, task, tasks, processed_count, stopPc>>
  /\ UNCHANGED <<dbVars, searchVars, handled, applied, stopCalls, stopDepth>>
  /\ UNCHANGED <<lastOp, rankIn, rankOut>>

NumTasks == Cardinality({w \in TaskIds : tasks[w] # "absent"})

\* (variant: a start that creates a task resets the counter)
StartM ==
  /\ is_running \/ NumTasks < MaxTasks
  /\ IF is_running
       THEN UNCHANGED <<is_running, task, tasks, processed_count>>
       ELSE /\ is_running' = TRUE
            /\ task' = NumTasks + 1
            /\ tasks' = [tasks EXCEPT ![NumTasks + 1] = "created"]
            /\ processed_count' = 0
  /\ UNCHANGED <<queue, unfinished, stopPc>>
  /\ UNCHANGED <<dbVars, searchVars, histVars>>

\* EventProcessor.start
Start ==
  /\ is_running \/ NumTasks < MaxTasks
  /\ IF is_running
       THEN UNCHANGED <<is_running, task, tasks>>
       ELSE /\ is_running' = TRUE
            /\ task' = NumTasks + 1
            /\ tasks' = [tasks EXCEPT ![NumTasks + 1] = "created"]
  /\ UNCHANGED <<queue, unfinished, processed_count, stopPc>>
  /\ UNCHANGED <<dbVars, searchVars, histVars>>

\* (variant: stop() does not wait for the queue)
JoinBlocksM(n) == FALSE

\* asyncio.Queue.join suspends while an item is not marked done.
JoinBlocks(n) == n > 0

\* stop() after the join: self._task.cancel(), then await self._task, which
\* suspends when the task was still running.
CancelAndAwait ==
  /\ tasks' = [tasks EXCEPT ![task] = "done"]
  /\ stopPc' = IF Alive(task) THEN "awaitTask" ELSE "returned"

\* EventProcessor.stop, up to its first suspension.
StopCall ==
  /\ stopPc \in {"idle", "returned"}
  /\ stopCalls < MaxStops
  /\ stopCalls' = stopCalls + 1
  /\ stopDepth' = unfinished
  /\ is_running' = FALSE
  /\ IF task = 0
       THEN stopPc' = "returned" /\ UNCHANGED tasks
       ELSE IF JoinBlocks(unfinished)
              THEN stopPc' = "join" /\ UNCHANGED tasks
              ELSE CancelAndAwait
  /\ UNCHANGED <<task, queue, unfinished, processed_count>>
  /\ UNCHANGED <<dbVars, searchVars>>
  /\ UNCHANGED <<nextId, acks, blockedPuts, handled, applied, enqOffRun, enqDrain>>
  /\ UNCHANGED <<lastOp, rankIn, rankOut>>

\* stop() resumes from queue.join() once the loop runs it again.
StopResume ==
  /\ stopPc = "woken"
  /\ CancelAndAwait
  /\ UNCHANGED <<is_running, task, queue, unfinished, processed_count>>
  /\ UNCHANGED <<dbVars, searchVars, histVars>>

\* stop() resumes from await self._task and returns.
StopReturn ==
  /\ stopPc = "awaitTask"
  /\ stopPc' = "returned"
  /\ UNCHANGED <<is_running, task, tasks, queue, unfinished, processed_count>>
  /\ UNCHANGED <<dbVars, searchVars, histVars>>

\* (variant: an exception of the iteration ends the loop)
WorkerAfterIterationM(running, failed) ==
  IF failed THEN "done" ELSE IF running THEN "waiting" ELSE "done"

\* _process_events: the loop condition, evaluated when an iteration ends.
\* An exception of the iteration is caught (lines 78-79) and the loop goes on.
WorkerAfterIteration(running, failed) ==
  IF running THEN "waiting" ELSE "done"

\* _process_events when the task runs for the first time.
WorkerBegin(w) ==
  /\ tasks[w] = "created"
  /\ tasks' = [tasks EXCEPT ![w] = WorkerAfterIteration(is_running, FALSE)]
  /\ UNCHANGED <<is_running, task, queue, unfinished, processed_count, stopPc>>
  /\ UNCHANGED <<dbVars, searchVars, histVars>>

\* (variant: the newest item is taken first)
QueueGetM(q) == [item |-> q[Len(q)], rest |-> SubSeq(q, 1, Len(q) - 1)]

\* asyncio.Queue.get: the oldest item and the rest.
QueueGet(q) == [item |-> Head(q), rest |-> Tail(q)]

\* (variant: a failed event is put back for a retry)
AfterFailureM(q, e) == Append(q, e)

\* _handle_event's work on the queue after a failed handling: none.
AfterFailure(q, e) == q

\* (variant: the Event row is committed before process_event runs)
HandleEventRowsM(rows, e, fail) ==
  IF fail \in {"none", "apply"}
    THEN Append(rows, e)
    ELSE rows

\* _handle_event: the Event row and the score update are one transaction;
\* any exception rolls it back and is swallowed (lines 101-102).
HandleEventRows(rows, e, fail) ==
  IF fail = "none"
    THEN Append(rows, e)
    ELSE rows

HandleEventScores(db, e, fail) ==
  IF fail = "none" THEN process_event(db, e) ELSE db

\* the increments a committed event adds, for the history
CountEvent(a, e) ==
  IF e.pid = None THEN a
  ELSE [a EXCEPT ![e.pid] =
     CASE e.type = "click" -> [@ EXCEPT !.click_count = @ + 1]
       [] e.type = "add_to_cart" -> [@ EXCEPT !.cart_count = @ + 1]
       [] e.type = "purchase" -> [@ EXCEPT !.purchase_count = @ + 1]
       [] e.type = "dwell_time" -> [@ EXCEPT !.total_dwell_time = @ + e.dwell]
       [] OTHER -> @]

\* One iteration of _process_events that gets an item: queue.get,
\* _handle_event, queue.task_done, processed_count += 1, loop condition.
WorkerGet(w, fail) ==
  /\ tasks[w] = "waiting"
  /\ queue # <<>>
  /\ LET got == QueueGet(queue)
         e == got.item
         ok == (fail = "none")
     IN /\ queue' = IF ok THEN got.rest ELSE AfterFailure(got.rest, e)
        /\ events' = HandleEventRows(events, e, fail)
        /\ scores' = HandleEventScores(scores, e, fail)
        /\ applied' = IF ok THEN CountEvent(applied, e) ELSE applied
        /\ handled' = Append(handled, [id |-> e.id, ok |-> ok])
        /\ unfinished' = unfinished - 1
        /\ stopPc' = IF stopPc = "join" /\ unfinished' = 0
                       THEN "woken" ELSE stopPc
        /\ processed_count' = processed_count + 1
        /\ tasks' = [tasks EXCEPT ![w] = WorkerAfterIteration(is_running, ~ok)]
  /\ UNCHANGED <<is_running, task>>
  /\ UNCHANGED <<searchVars, nextId, acks, blockedPuts, stopCalls, enqOffRun,
                 enqDrain, stopDepth, lastOp, rankIn, rankOut>>

\* One iteration of _process_events that times out on an empty queue
\* (lines 67-68): continue, then the loop condition.
WorkerTimeout(w) ==
  /\ tasks[w] = "waiting"
  /\ queue = <<>>
  /\ tasks' = [tasks EXCEPT ![w] = WorkerAfterIteration(is_running, FALSE)]
  /\ UNCHANGED <<is_running, task, queue, unfinished, processed_count, stopPc>>
  /\ UNCHANGED <<dbVars, searchVars, histVars>>

\* ---------------------------------------------------------- SearchService
\* (variant: search() awaits between ranking and recording)
RankSuspendsM == TRUE

\* Whether search() suspends between rank_results (line 95) and
\* record_impressions_batch (line 114): there is no await between them.
RankSuspends == FALSE

\* POST /search: the request is accepted and search() runs up to its first
\* await (query expansion).
SearchBegin(s) ==
  /\ searches < MaxSearches
  /\ searchPc[s] = "idle"
  /\ \A t \in SearchIds : t < s => searchPc[t] # "idle"
  /\ searchPc' = [searchPc EXCEPT ![s] = "started"]
  /\ searches' = searches + 1
  /\ UNCHANGED <<searchLoaded, searchRes>>
  /\ UNCHANGED <<procVars, dbVars, histVars>>

CountImpressions(a, ids) ==
  [pid \in AllPids |->
     IF pid \in ids THEN [a[pid] EXCEPT !.impression_count = @ + 1]
     ELSE a[pid]]

\* search() from the vector search to the commit of the impressions:
\* cands are the ids the vector store returns, res the ids left after
\* ranking and truncation to top_k.
SearchRank(s, cands, res) ==
  /\ searchPc[s] \in {"started", "ranked"}
  /\ IF searchPc[s] = "started"
       THEN LET loaded == [pid \in AllPids |->
                             IF pid \in cands THEN scores[pid] ELSE NoRow]
            IN IF cands = {}
                 THEN /\ searchPc' = [searchPc EXCEPT ![s] = "idle"]
                      /\ UNCHANGED <<searchLoaded, searchRes, scores, applied>>
                 ELSE IF RankSuspends
                   THEN /\ searchPc' = [searchPc EXCEPT ![s] = "ranked"]
                        /\ searchLoaded' = [searchLoaded EXCEPT ![s] = loaded]
                        /\ searchRes' = [searchRes EXCEPT ![s] = res]
                        /\ UNCHANGED <<scores, applied>>
                   ELSE /\ searchPc' = [searchPc EXCEPT ![s] = "idle"]
                        /\ scores' = record_impressions_batch(scores, loaded, res)
                        /\ applied' = CountImpressions(applied, res)
                        /\ UNCHANGED <<searchLoaded, searchRes>>
       ELSE /\ searchPc' = [searchPc EXCEPT ![s] = "idle"]
            /\ scores' = record_impressions_batch(scores, searchLoaded[s],
                                                  searchRes[s])
            /\ applied' = CountImpressions(applied, searchRes[s])
            /\ searchLoaded' = [searchLoaded EXCEPT ![s] = NothingLoaded]
            /\ searchRes' = [searchRes EXCEPT ![s] = {}]
  /\ UNCHANGED <<procVars, events, searches>>
  /\ UNCHANGED <<nextId, acks, blockedPuts, handled, stopCalls, enqOffRun,
                 enqDrain, stopDepth, lastOp, rankIn, rankOut>>

\* -------------------------------------------- LearningService, operations
\* The events the learning service is driven with: every event type that
\* changes a counter, a bounce and a long dwell, two products.
LearnPayloads ==
  { [type |-> "click",       pid |-> "P1", dwell |-> 0],
    [type |-> "add_to_cart", pid |-> "P1", dwell |-> 0],
    [type |-> "purchase",    pid |-> "P1", dwell |-> 0],
    [type |-> "dwell_time",  pid |-> "P1", dwell |-> 3],
    [type |-> "dwell_time",  pid |-> "P1", dwell |-> 90],
    [type |-> "click",       pid |-> "P2", dwell |-> 0] }

Op(name) == [op |-> name, done |-> {}, runs |-> 0]

\* _handle_event on one event that commits: the Event row and
\* process_event in one transaction.
HandleEvent(p) ==
  /\ Len(events) < MaxRows
  /\ LET e == [id |-> Len(events) + 1, type |-> p.type, pid |-> p.pid,
               dwell |-> p.dwell]
     IN /\ events' = HandleEventRows(events, e, "none")
        /\ scores' = HandleEventScores(scores, e, "none")
  /\ lastOp' = Op("event")
  /\ UNCHANGED <<procVars, searchVars>>
  /\ UNCHANGED <<nextId, acks, blockedPuts, handled, applied, stopCalls, enqOffRun,
                 enqDrain, stopDepth, rankIn, rankOut>>

\* record_impression / record_impressions_batch in a session of its own,
\* then the caller's commit.
RecordImpressions(ids) ==
  /\ searches < MaxImpressions
  /\ searches' = searches + 1
  /\ scores' = record_impressions_batch(scores, NothingLoaded, ids)
  /\ lastOp' = Op("impression")
  /\ UNCHANGED <<procVars, events, searchPc, searchLoaded, searchRes>>
  /\ UNCHANGED <<nextId, acks, blockedPuts, handled, applied, stopCalls, enqOffRun,
                 enqDrain, stopDepth, rankIn, rankOut>>

\* POST /analytics/recalculate-scores, a pass that reaches its commit.
\* runs counts the passes in a row with nothing in between, up to 2.
Recalculate ==
  /\ scores' = recalculate_all_scores(scores, events, Products)
  /\ lastOp' = [op |-> "recalc", done |-> Products,
                runs |-> IF lastOp.op = "recalc" THEN 2 ELSE 1]
  /\ UNCHANGED <<procVars, events, searchVars>>
  /\ UNCHANGED <<nextId, acks, blockedPuts, handled, applied, stopCalls,
                 enqOffRun, enqDrain, stopDepth, rankIn, rankOut>>

\* A pass that raises after it has recomputed the products in done (all
\* of them when the commit itself fails).
RecalculateFails(done) ==
  /\ scores' = AfterFailedPass(scores,
                               recalculate_all_scores(scores, events, done))
  /\ lastOp' = [op |-> "recalc_failed", done |-> done, runs |-> 0]
  /\ UNCHANGED <<procVars, events, searchVars>>
  /\ UNCHANGED <<nextId, acks, blockedPuts, handled, applied, stopCalls,
                 enqOffRun, enqDrain, stopDepth, rankIn, rankOut>>

\* SearchService.search from the vector search to the answer: candidates,
\* rank_results, truncation to top_k, the Product lookup,
\* record_impressions_batch with its commit, and the results built from the
\* tuples that have a Product.
Search ==
  /\ ~rankOut.answered
  /\ LET cands == VectorSearch(rankIn.store, CandidatesRequested(rankIn.top_k))
         ranked == rank_results(scores, cands)
         top == Truncate(ranked, rankIn.top_k)
         loaded == [pid \in AllPids |->
                      IF pid \in PidsOf(cands) THEN scores[pid] ELSE NoRow]
     IN IF cands = <<>>
          THEN /\ rankOut' = [ranked |-> <<>>, results |-> <<>>,
                              answered |-> TRUE, boost |-> NoBoost]
               /\ UNCHANGED scores
          ELSE /\ scores' = record_impressions_batch(scores, loaded, PidsOf(top))
               /\ rankOut' = [ranked |-> ranked, results |-> WithProduct(top),
                              answered |-> TRUE, boost |-> NoBoost]
  /\ UNCHANGED <<procVars, events, searchVars>>
  /\ UNCHANGED <<nextId, acks, blockedPuts, handled, applied, stopCalls,
                 enqOffRun, enqDrain, stopDepth, lastOp, rankIn>>

\* RankingService.apply_boost on the list rank_results has returned.
ApplyBoost(ids, factor) ==
  /\ rankOut.answered
  /\ ~rankOut.boost.done
  /\ rankOut' = [rankOut EXCEPT
                   !.boost = [ids |-> ids, factor |-> factor,
                              list |-> apply_boost(rankOut.ranked, ids, factor),
                              done |-> TRUE]]
  /\ UNCHANGED <<procVars, dbVars, searchVars>>
  /\ UNCHANGED <<nextId, acks, blockedPuts, handled, applied, stopCalls,
                 enqOffRun, enqDrain, stopDepth, lastOp, rankIn>>

\* BehaviorScore.update_rates called on a stored record.
UpdateRates(pid) ==
  /\ scores[pid] # NoRow
  /\ scores' = [scores EXCEPT ![pid] = update_rates(@)]
  /\ lastOp' = Op("update_rates")
  /\ UNCHANGED <<procVars, events, searchVars>>
  /\ UNCHANGED <<nextId, acks, blockedPuts, handled, applied, stopCalls,
                 enqOffRun, enqDrain, stopDepth, rankIn, rankOut>>

\* ------------------------------------------------------------------ spec
\* The event pipeline: requests to the processor and the tasks of the loop.
Next ==
  \/ \E p \in Payloads : TrackEvent(p)
  \/ Start
  \/ StopCall
  \/ StopResume
  \/ StopReturn
  \/ \E w \in TaskIds : WorkerBegin(w)
  \/ \E w \in TaskIds, fail \in FailPoints : WorkerGet(w, fail)
  \/ \E w \in TaskIds : WorkerTimeout(w)

Spec == Init /\ [][Next]_vars

\* A step of a task of the event loop: the worker's iterations and the
\* continuations of stop().
LoopStep ==
  \/ \E w \in TaskIds : WorkerBegin(w)
  \/ \E w \in TaskIds, fail \in FailPoints : WorkerGet(w, fail)
  \/ \E w \in TaskIds : WorkerTimeout(w)
  \/ StopResume
  \/ StopReturn

\* The event loop runs a task that is ready: while some task can take a
\* step, a task eventually takes one.  Requests (track_event, start, stop)
\* come from outside and need not come.
FairSpec == Spec /\ WF_vars(LoopStep)

\* The two write paths of BehaviorScore while the processor runs: the
\* worker applying queued events and search requests recording impressions.
RaceNext ==
  \/ \E p \in Payloads : TrackEvent(p)
  \/ Start
  \/ \E w \in TaskIds : WorkerBegin(w)
  \/ \E w \in TaskIds, fail \in FailPoints : WorkerGet(w, fail)
  \/ \E s \in SearchIds : SearchBegin(s)
  \/ \E s \in SearchIds, cands \in SUBSET AllPids :
       \E res \in SUBSET cands :
         /\ (cands # {} => res # {})
         /\ SearchRank(s, cands, res)

RaceSpec == Init /\ [][RaceNext]_vars

\* The learning service on its own: committed events, impressions and
\* reconciliation passes in any order.
LearnNext ==
  \/ \E p \in LearnPayloads : HandleEvent(p)
  \/ \E ids \in (SUBSET Products) \ {{}} : RecordImpressions(ids)
  \/ Recalculate
  \/ \E done \in SUBSET Products : RecalculateFails(done)

LearnSpec == Init /\ [][LearnNext]_vars

\* update_rates as a function: the record it is called on has any
\* counters, any bounce_rate and a click_rate left by an earlier call.
ImpressionSamples == {0, 1, 100}
ClickSamples == {0, 1, 20}
CartSamples == {0, 5}
PurchaseSamples == {0, 2}
DwellSamples == {0, 90, 300}
BounceSamples == {RZero, [n |-> 1, d |-> 10], ROne}
OldRateSamples == {RZero, [n |-> 1, d |-> 2]}

RecordSamples ==
  { [NewScore EXCEPT !.impression_count = i, !.click_count = c,
                     !.cart_count = a, !.purchase_count = p,
                     !.total_dwell_time = t, !.bounce_rate = b,
                     !.click_rate = o] :
      i \in ImpressionSamples, c \in ClickSamples, a \in CartSamples,
      p \in PurchaseSamples, t \in DwellSamples, b \in BounceSamples,
      o \in OldRateSamples }

RatesInit ==
  /\ InitProcessor
  /\ rankIn = NoQuery
  /\ \E r \in RecordSamples :
       scores = [pid \in AllPids |-> IF pid = "P1" THEN r ELSE NoRow]

RatesNext == \E pid \in AllPids : UpdateRates(pid)

RatesSpec == RatesInit /\ [][RatesNext]_vars

\* One search request as a function of what it reads: the matches of the
\* vector store, best first, with or without a Product row, the requested
\* top_k, and the BehaviorScore records.
MaxTopK == 2
\* similarities are 1 - cosine distance, a distance above 1 gives a
\* negative one
SemanticSamples == {[n |-> 9, d |-> 10], [n |-> 1, d |-> 2], [n |-> -1, d |-> 10]}
BoostFactors == {[n |-> 6, d |-> 5], [n |-> 2, d |-> 1]}

\* a product clicked once with 60 s of dwell: behavior_score 0.1
RowLow ==
  update_rates([NewScore EXCEPT !.click_count = 1, !.total_dwell_time = 60])
\* a product shown once, clicked, carted and bought: behavior_score 0.9
RowHigh ==
  update_rates([NewScore EXCEPT !.impression_count = 1, !.click_count = 1,
                                !.cart_count = 1, !.purchase_count = 1])
\* a product shown once, clicked and carted: behavior_score 0.6
RowMid ==
  update_rates([NewScore EXCEPT !.impression_count = 1, !.click_count = 1,
                                !.cart_count = 1])
RowSamples == {NoRow, RowLow, RowMid, RowHigh}
\* values of settings.behavior_weight, the configured one among them
BehaviorWeightSamples == {[n |-> 1, d |-> 10], behavior_weight, [n |-> 1, d |-> 1]}

\* lists of matches: distinct ids, similarity not increasing
StoreSamples ==
  UNION { { st \in [1 .. n -> [pid : AllPids, semantic_score : SemanticSamples]] :
              /\ \A i \in 1 .. n : \A j \in 1 .. n :
                   st[i].pid = st[j].pid => i = j
              /\ \A i \in 1 .. n - 1 :
                   ~RLess(st[i].semantic_score, st[i + 1].semantic_score) } :
          n \in 0 .. Cardinality(AllPids) }

RankInit ==
  /\ InitProcessor
  /\ scores \in [AllPids -> RowSamples]
  /\ rankIn \in [store : StoreSamples, top_k : 1 .. MaxTopK]

RankNext ==
  \/ Search
  \/ \E ids \in SUBSET AllPids, factor \in BoostFactors : ApplyBoost(ids, factor)

RankSpec == RankInit /\ [][RankNext]_vars

\* process_event as a function: events of every type, with and without
\* product id and dwell time, applied to a product whose record is absent,
\* new, or left by earlier events, impressions and reconciliations.
EventPayloads ==
  { [type |-> "click",       pid |-> "P1", dwell |-> 0],
    [type |-> "add_to_cart", pid |-> "P1", dwell |-> 0],
    [type |-> "purchase",    pid |-> "P1", dwell |-> 0],
    [type |-> "dwell_time",  pid |-> "P1", dwell |-> 3],
    [type |-> "dwell_time",  pid |-> "P1", dwell |-> 90],
    [type |-> "dwell_time",  pid |-> "P1", dwell |-> 0],
    [type |-> "search",      pid |-> "P1", dwell |-> 0],
    [type |-> "search",      pid |-> None, dwell |-> 0] }

\* a clicked product whose impressions a reconciliation has reset: the
\* click_rate of before is still stored
RowStale ==
  update_rates([NewScore EXCEPT !.click_count = 1, !.click_rate = ROne])
\* a reconciled product with one click, a bounce and a long dwell
RowBounced ==
  update_rates([NewScore EXCEPT !.click_count = 1, !.total_dwell_time = 93,
                                !.bounce_rate = [n |-> 1, d |-> 2]])
EventRecordSamples == {NoRow, NewScore, RowHigh, RowStale, RowBounced}

EventInit ==
  /\ InitProcessor
  /\ rankIn = NoQuery
  /\ \E r \in EventRecordSamples :
       scores = [pid \in AllPids |-> IF pid = "P1" THEN r ELSE NoRow]

EventNext == \E p \in EventPayloads : HandleEvent(p)

EventSpec == EventInit /\ [][EventNext]_vars

\* ---------------------------------------------------------------- claims
HandledIds == {handled[i].id : i \in 1 .. Len(handled)}
QueueIds == {queue[i].id : i \in 1 .. Len(queue)}
NumAlive == Cardinality({w \in TaskIds : Alive(w)})

\* a step in which a stop() call returns
StopReturns ==
  stopPc' = "returned" /\ (stopPc # "returned" \/ stopCalls' # stopCalls)

\* C1: when every event was enqueued on a running processor and before
\* stop() was called, then at the return of stop() processed_count equals
\* the number of enqueued events and the queue is empty.
C1_StopProcessesAll ==
  [][(StopReturns /\ ~enqOffRun')
       => (processed_count' = acks' /\ Len(queue') = 0)]_vars

\* C1 witness: stop() was called with items not yet done and has returned
\* with all of them processed.
C1_Witness ==
  /\ stopPc = "returned"
  /\ ~enqOffRun
  /\ stopDepth >= 1
  /\ processed_count = acks
  /\ queue = <<>>

\* C2: once stop() is draining, it eventually returns, with the queue
\* drained by the worker.
C2_ShutdownDrains == Draining ~> (stopPc = "returned")

\* C3: at the return of stop(), every event that was enqueued while stop()
\* was draining has been handled by the worker.
C3_DrainProcessesLateEvents ==
  stopPc = "returned" => enqDrain \subseteq HandledIds

\* C4: at most one worker task is alive.
C4_OneWorker == NumAlive <= 1

\* C5: when no writer is between its read and its commit, every raw counter
\* of every BehaviorScore equals the number of increments applied to it
\* (the counters start at 0).
C5_NoLostUpdate ==
  (\A s \in SearchIds : searchPc[s] # "ranked") =>
    \A pid \in AllPids :
      LET row == get_or_create_score(scores, pid)
      IN \A f \in CounterFields : row[f] = applied[pid][f]

\* C5 witness: two searches and the worker have written the same score.
C5_Witness ==
  /\ applied["P1"].impression_count = 2
  /\ applied["P1"].click_count >= 1
  /\ \A s \in SearchIds : searchPc[s] = "idle"

\* C6: a handling that fails does not end the worker: the item is marked
\* done and counted, and the worker leaves the loop only when is_running is
\* false.
C6_WorkerSurvivesBadEvent ==
  [][(Len(handled') = Len(handled) + 1 /\ ~handled'[Len(handled')].ok)
       => /\ processed_count' = processed_count + 1
          /\ unfinished' = unfinished - 1
          /\ \A w \in TaskIds :
               (tasks[w] = "waiting" /\ tasks'[w] # "waiting") => ~is_running]_vars

\* C6 witness: one worker, running, has handled an event after a failed one.
C6_Witness ==
  /\ NumTasks = 1
  /\ is_running
  /\ tasks[1] = "waiting"
  /\ \E i \in 1 .. Len(handled) : \E j \in 1 .. Len(handled) :
       i < j /\ ~handled[i].ok /\ handled[j].ok

\* total dwell_time_seconds of the stored dwell_time rows of a product
RECURSIVE SumDwell(_, _)
SumDwell(rows, pid) ==
  IF rows = <<>>
    THEN 0
    ELSE (IF Head(rows).pid = pid /\ Head(rows).type = "dwell_time"
            THEN Head(rows).dwell ELSE 0)
         + SumDwell(Tail(rows), pid)

\* C7: every enqueued event is handled at most once, leaves at most one
\* Event row, and its counter effect is in the BehaviorScore exactly as
\* often as its row is stored; a handled event is not in the queue again.
C7_AtMostOnce ==
  /\ \A i \in 1 .. Len(handled) : \A j \in 1 .. Len(handled) :
       handled[i].id = handled[j].id => i = j
  /\ \A i \in 1 .. Len(events) : \A j \in 1 .. Len(events) :
       events[i].id = events[j].id => i = j
  /\ HandledIds \cap QueueIds = {}
  /\ \A i \in 1 .. Len(events) :
       \E j \in 1 .. Len(handled) : handled[j].id = events[i].id /\ handled[j].ok
  /\ \A pid \in AllPids :
       LET row == get_or_create_score(scores, pid)
           clicks == {i \in 1 .. Len(events) :
                        events[i].pid = pid /\ events[i].type = "click"}
       IN /\ row.click_count = Cardinality(clicks)
          /\ row.total_dwell_time = SumDwell(events, pid)

\* C7 witness: an event failed, a later one was stored and applied, and
\* nothing is left in the queue.
C7_Witness ==
  /\ queue = <<>>
  /\ \E i \in 1 .. Len(handled) : ~handled[i].ok
  /\ \E i \in 1 .. Len(events) : events[i].pid = "P1"

\* C8: every track_event call appends its event to the queue and answers
\* "accepted" in the same step, whatever the processor state and the queue
\* depth, without suspending and without any Event row being written.
C8_EnqueueAccepts ==
  [][(nextId' = nextId + 1)
       => /\ acks' = acks + 1
          /\ blockedPuts' = 0
          /\ Len(queue') = Len(queue) + 1
          /\ queue'[Len(queue')].id = nextId
          /\ SubSeq(queue', 1, Len(queue)) = queue
          /\ events' = events]_vars

\* C8 witness: events were accepted while stop() was draining, one of them
\* for a product that does not exist, behind another queued event.
C8_Witness ==
  /\ enqDrain # {}
  /\ Len(queue) >= 2
  /\ \E i \in 1 .. Len(queue) :
       queue[i].pid = UnknownPid /\ queue[i].id \in enqDrain
  /\ acks = nextId - 1

\* C9: events are handled, and their rows stored, in the order in which
\* they were enqueued.
C9_Fifo ==
  /\ \A i \in 1 .. Len(handled) : handled[i].id = i
  /\ \A i \in 1 .. Len(queue) : queue[i].id = Len(handled) + i
  /\ \A i \in 1 .. Len(events) : \A j \in 1 .. Len(events) :
       i < j => events[i].id < events[j].id

\* C9 witness: two events that were queued together have been handled and
\* stored.
C9_Witness ==
  /\ Len(handled) >= 2
  /\ Len(events) >= 2

\* C10: stop() on a stopped processor returns at once and leaves
\* is_running, the queue and processed_count as they were.
C10_StopOnStoppedIsNoop ==
  [][(~is_running /\ stopPc \in {"idle", "returned"} /\ stopCalls' = stopCalls + 1)
       => /\ stopPc' = "returned"
          /\ UNCHANGED <<is_running, queue, processed_count>>]_vars

\* ------------------------------------------- claims on the derived fields
StoredPids == {pid \in AllPids : scores[pid] # NoRow}
RateFields == {"click_rate", "cart_rate", "conversion_rate",
               "avg_dwell_time", "bounce_rate"}
InUnit(r) == r.d > 0 /\ 0 <= r.n /\ r.n <= r.d

C12_ScoreInUnitInterval ==
  \A pid \in StoredPids : InUnit(scores[pid].behavior_score)

\* C12 witness: the clamp has cut the sum at 1: a product with more carts
\* than clicks whose weighted rates sum to more than 1 has score 1.  (The
\* other end is reached too: a reconciled product whose only signal is a
\* bounce has a negative sum and score 0.)
C12_Witness ==
  \E pid \in StoredPids :
    /\ scores[pid].cart_rate.n > scores[pid].cart_rate.d
    /\ 3 * scores[pid].cart_rate.n * scores[pid].click_rate.d
         + 3 * scores[pid].click_rate.n * scores[pid].cart_rate.d
         > 10 * scores[pid].cart_rate.d * scores[pid].click_rate.d
    /\ scores[pid].bounce_rate = RZero
    /\ scores[pid].behavior_score = ROne

\* C13: the derived fields are a function of the raw counters: two
\* BehaviorScore records with equal impression_count, click_count,
\* cart_count, purchase_count and total_dwell_time have equal click_rate,
\* cart_rate, conversion_rate, avg_dwell_time and behavior_score.
C13_DerivedFromCounters ==
  \A p \in StoredPids : \A q \in StoredPids :
    (\A f \in CounterFields : scores[p][f] = scores[q][f])
      => \A f \in {"click_rate", "cart_rate", "conversion_rate",
                    "avg_dwell_time", "behavior_score"} :
           scores[p][f] = scores[q][f]

\* C14 as stated: a BehaviorScore with impression_count 0 has click_rate,
\* cart_rate, conversion_rate, avg_dwell_time and bounce_rate 0 and
\* behavior_score 0.
C14_NoImpressionAllZero ==
  \A pid \in StoredPids :
    scores[pid].impression_count = 0
      => /\ \A f \in RateFields : scores[pid][f] = RZero
         /\ scores[pid].behavior_score = RZero

\* C14, amended: a BehaviorScore with impression_count 0 and click_count 0
\* has click_rate, cart_rate, conversion_rate and avg_dwell_time 0 and
\* behavior_score 0.
C14_NoSignalAllZero ==
  \A pid \in StoredPids :
    (scores[pid].impression_count = 0 /\ scores[pid].click_count = 0)
      => /\ \A f \in RateFields \ {"bounce_rate"} : scores[pid][f] = RZero
         /\ scores[pid].behavior_score = RZero

\* C14 witness: a product without impression and click that has carts,
\* purchases or dwell time counted, and a bounce rate from a reconciliation.
C14_Witness ==
  \E pid \in StoredPids :
    /\ scores[pid].impression_count = 0
    /\ scores[pid].click_count = 0
    /\ scores[pid].total_dwell_time > 0
    /\ scores[pid].cart_count > 0
    /\ scores[pid].bounce_rate # RZero

\* arithmetic on fractions for the statements below, each result in
\* lowest terms
RatAdd(a, b) == Norm(a.n * b.d + b.n * a.d, a.d * b.d)
RatSub(a, b) == Norm(a.n * b.d - b.n * a.d, a.d * b.d)
RatMul(a, b) == Norm(a.n * b.n, a.d * b.d)
RatEq(a, b) == a.n * b.d = b.n * a.d
RatLeq(a, b) == a.n * b.d <= b.n * a.d
RatMin(a, b) == IF RatLeq(a, b) THEN a ELSE b
RatMax(a, b) == IF RatLeq(a, b) THEN b ELSE a
Rat(n, d) == [n |-> n, d |-> d]
RatClamp(x) == RatMax(RZero, RatMin(ROne, x))

\* the score the formula of the claim gives for the rates of a record
FormulaScore(r) ==
  RatClamp(RatSub(
    RatAdd(RatAdd(RatMul(Rat(3, 10), r.click_rate),
                  RatMul(Rat(3, 10), r.cart_rate)),
           RatAdd(RatMul(Rat(3, 10), r.conversion_rate),
                  RatMul(Rat(1, 10),
                         RatMin(RatMul(r.avg_dwell_time, Rat(1, 60)), ROne)))),
    RatMul(Rat(2, 10), r.bounce_rate)))

ScenarioCounters ==
  [impression_count |-> 100, click_count |-> 20, cart_count |-> 5,
   purchase_count |-> 2, total_dwell_time |-> 300]

\* C15: after update_rates on a record with impression_count > 0 and
\* click_count > 0, click_rate = click_count / impression_count, cart_rate
\* = cart_count / click_count, conversion_rate = purchase_count /
\* click_count, avg_dwell_time = total_dwell_time / click_count and
\* behavior_score = clamp(0.3 click_rate + 0.3 cart_rate + 0.3
\* conversion_rate + 0.1 min(avg_dwell_time / 60, 1) - 0.2 bounce_rate, 0, 1);
\* with 100 impressions, 20 clicks, 5 carts, 2 purchases, 300 seconds and
\* bounce_rate 0.1 the score is 0.17.
C15_UpdateRatesFormulas ==
  lastOp.op = "update_rates" =>
    \A pid \in StoredPids :
      LET r == scores[pid]
      IN (r.impression_count > 0 /\ r.click_count > 0) =>
           /\ RatEq(r.click_rate, Rat(r.click_count, r.impression_count))
           /\ RatEq(r.cart_rate, Rat(r.cart_count, r.click_count))
           /\ RatEq(r.conversion_rate, Rat(r.purchase_count, r.click_count))
           /\ RatEq(r.avg_dwell_time, Rat(r.total_dwell_time, r.click_count))
           /\ RatEq(r.behavior_score, FormulaScore(r))
           /\ ((\A f \in CounterFields : r[f] = ScenarioCounters[f])
                /\ r.bounce_rate = Rat(1, 10))
                => r.behavior_score = Rat(17, 100)

\* C15 witness: update_rates has run on the record of the scenario and on
\* it the score is 17/100.
C15_Witness ==
  /\ lastOp.op = "update_rates"
  /\ \A f \in CounterFields : scores["P1"][f] = ScenarioCounters[f]
  /\ scores["P1"].bounce_rate = Rat(1, 10)
  /\ scores["P1"].click_rate = Rat(1, 5)
  /\ scores["P1"].avg_dwell_time = Rat(15, 1)
  /\ scores["P1"].behavior_score = Rat(17, 100)

\* C16: recalculate_all_scores is idempotent: a second pass right after a
\* first, with no event persisted and no impression recorded in between,
\* leaves every counter, every rate and every behavior_score as they were.
C16_RecalculateIdempotent ==
  [][(lastOp'.op = "recalc" /\ lastOp'.runs = 2) => scores' = scores]_vars

\* C16 witness: after two passes in a row, the product holds reconciled
\* values that differ from the incrementally maintained ones: a bounce rate
\* and an impression_count reset from 1 to 0.
C16_Witness ==
  /\ lastOp.op = "recalc"
  /\ lastOp.runs = 2
  /\ searches = 1
  /\ scores["P1"] # NoRow
  /\ scores["P1"].impression_count = 0
  /\ scores["P1"].bounce_rate = Rat(1, 2)
  /\ scores["P1"].total_dwell_time = 93

\* the record of a product holds what a reconciliation computes for it
Reconciled(pid) ==
  /\ scores[pid] # NoRow
  /\ scores[pid] = recalculate_score(scores[pid], events, pid)

\* C17 as stated: when recalculate_all_scores fails part-way, the products
\* it had recomputed before the failure hold their reconciled values in the
\* store.
C17_PartialPersisted ==
  lastOp.op = "recalc_failed" => \A pid \in lastOp.done : Reconciled(pid)

\* C17, amended: when recalculate_all_scores fails, part-way or at its
\* commit, nothing of the pass is stored: every product, recomputed before
\* the failure or not, keeps the values it had before the pass.
C17_FailedPassStoresNothing ==
  [][lastOp'.op = "recalc_failed" => (scores' = scores /\ events' = events)]_vars

\* C17 witness: a pass has failed after recomputing P1, whose stored record
\* is not a reconciled one: it still has the impression the pass had reset.
C17_Witness ==
  /\ lastOp.op = "recalc_failed"
  /\ lastOp.done = {"P1"}
  /\ scores["P1"] # NoRow
  /\ scores["P1"].impression_count = 1
  /\ ~Reconciled("P1")
  /\ scores["P2"] # NoRow

\* --------------------------------------------------- claims on the search
ImpressionsOf(db, pid) ==
  IF db[pid] = NoRow THEN 0 ELSE db[pid].impression_count

\* a step in which search() answers
SearchAnswers == ~rankOut.answered /\ rankOut'.answered

\* C18: search records impressions for exactly the product ids it
\* returns: when it has returned the result set R, the impression_count of
\* every product in R is 1 higher and that of every product not in R is
\* unchanged, also when a ranked candidate has no Product row and is left
\* out of R.
C18_ImpressionsExactlyReturned ==
  [][SearchAnswers =>
       \A pid \in AllPids :
         ImpressionsOf(scores', pid) =
           ImpressionsOf(scores, pid)
             + (IF pid \in PidsOf(rankOut'.results) THEN 1 ELSE 0)]_vars

Smaller(a, b) == IF a < b THEN a ELSE b

\* C19: search asks for 2 * top_k candidates and truncates after the
\* re-ranking: the list it returns has at most top_k items, is in
\* non-increasing final_score order and consists of the top_k candidates
\* with the highest final_score.
C19_TopKAfterRerank ==
  rankOut.answered =>
    LET res == rankOut.results
        ranked == rankOut.ranked
        k == rankIn.top_k
    IN /\ Len(ranked) = Smaller(2 * k, Len(rankIn.store))
       /\ Len(res) <= k
       /\ \A i \in 1 .. Len(res) - 1 :
            RatLeq(res[i + 1].final_score, res[i].final_score)
       /\ Len(res) = Smaller(k, Len(ranked))
       /\ \A i \in 1 .. Len(res) : \E j \in 1 .. Len(ranked) : res[i] = ranked[j]
       /\ \A j \in 1 .. Len(ranked) :
            ranked[j].pid \notin PidsOf(res)
              => \A i \in 1 .. Len(res) :
                   RatLeq(ranked[j].final_score, res[i].final_score)

\* the scenario of C20: A = P1, B = P2
ScenarioStore ==
  << [pid |-> "P1", semantic_score |-> Rat(9, 10)],
     [pid |-> "P2", semantic_score |-> Rat(1, 2)] >>

\* C20: rank_results returns one tuple per candidate, with final_score =
\* semantic_score * semantic_weight + behavior_score * behavior_weight and
\* behavior_score 0 for a product without BehaviorScore, in non-increasing
\* final_score order; with weights 0.6 and 0.4, A (0.9, 0.1) gets 0.58,
\* B (0.5, 0.9) gets 0.66 and B precedes A.
C20_RankResults ==
  [][SearchAnswers =>
       LET cands == VectorSearch(rankIn.store, 2 * rankIn.top_k)
           ranked == rankOut'.ranked
       IN /\ Len(ranked) = Len(cands)
          /\ \A i \in 1 .. Len(cands) :
               Cardinality({j \in 1 .. Len(ranked) :
                              ranked[j].pid = cands[i].pid}) = 1
          /\ \A j \in 1 .. Len(ranked) :
               LET t == ranked[j]
                   beh == IF scores[t.pid] = NoRow THEN RZero
                          ELSE scores[t.pid].behavior_score
               IN /\ \E i \in 1 .. Len(cands) :
                       /\ cands[i].pid = t.pid
                       /\ cands[i].semantic_score = t.semantic_score
                  /\ t.behavior_score = beh
                  /\ RatEq(t.final_score,
                           RatAdd(RatMul(t.semantic_score, Rat(6, 10)),
                                  RatMul(beh, Rat(4, 10))))
          /\ \A j \in 1 .. Len(ranked) - 1 :
               RatLeq(ranked[j + 1].final_score, ranked[j].final_score)
          /\ (/\ cands = ScenarioStore
              /\ BehaviorOf(scores, "P1") = Rat(1, 10)
              /\ BehaviorOf(scores, "P2") = Rat(9, 10))
               => /\ ranked[1].pid = "P2"
                  /\ ranked[1].final_score = Rat(33, 50)
                  /\ ranked[2].pid = "P1"
                  /\ ranked[2].final_score = Rat(29, 50)]_vars

\* C20 witness: rank_results has ranked the scenario: B with 0.66 before A
\* with 0.58, and elsewhere a candidate without BehaviorScore.
C20_Witness ==
  /\ rankOut.answered
  /\ rankIn.store = ScenarioStore
  /\ rankOut.ranked =
       << [pid |-> "P2", semantic_score |-> Rat(1, 2),
           behavior_score |-> Rat(9, 10), final_score |-> Rat(33, 50)],
          [pid |-> "P1", semantic_score |-> Rat(9, 10),
           behavior_score |-> Rat(1, 10), final_score |-> Rat(29, 50)] >>
  /\ scores[UnknownPid] = NoRow

\* the orders a list of candidates can be supplied in
Orders(seq) ==
  { [i \in 1 .. Len(seq) |-> seq[f[i]]] :
      f \in { g \in [1 .. Len(seq) -> 1 .. Len(seq)] :
                \A i \in 1 .. Len(seq) : \A j \in 1 .. Len(seq) :
                  g[i] = g[j] => i = j } }

\* C21: ties are broken deterministically: for the same candidates (product
\* id, semantic score, behavior score) rank_results returns the same order
\* whatever order they are supplied in.
C21_OrderIndependent ==
  [][SearchAnswers =>
       \A o \in Orders(VectorSearch(rankIn.store,
                                    CandidatesRequested(rankIn.top_k))) :
         rank_results(scores, o) = rankOut'.ranked]_vars

\* the position of a product in a ranked list
PositionOf(pid, seq) == CHOOSE i \in 1 .. Len(seq) : seq[i].pid = pid

\* C22: for every ranked list, every set of boosted ids and every factor
\* above 1, apply_boost never moves a boosted product to a later position
\* than it had before the boost.
C22_BoostNeverLowers ==
  rankOut.boost.done =>
    \A pid \in rankOut.boost.ids \cap PidsOf(rankOut.ranked) :
      PositionOf(pid, rankOut.boost.list) <= PositionOf(pid, rankOut.ranked)

\* the behaviour score of pid is above the average of the other candidates
AboveAverage(db, cands, pid) ==
  LET others == PidsOf(cands) \ {pid}
      RECURSIVE Sum(_)
      Sum(S) == IF S = {} THEN RZero
                ELSE LET q == CHOOSE q \in S : TRUE
                     IN RatAdd(BehaviorOf(db, q), Sum(S \ {q}))
  IN /\ others # {}
     /\ RLess(Sum(others), RatMul(BehaviorOf(db, pid), Rat(Cardinality(others), 1)))

\* the behaviour score of pid is at least that of every other candidate
AtLeastAll(db, cands, pid) ==
  \A q \in PidsOf(cands) : RatLeq(BehaviorOf(db, q), BehaviorOf(db, pid))

\* a larger behavior_weight, semantic_weight fixed, does not move pid down
NotLoweredByWeight(db, cands, pid) ==
  \A w1 \in BehaviorWeightSamples : \A w2 \in BehaviorWeightSamples :
    RLess(w1, w2) =>
      PositionOf(pid, rank_results_with(db, cands, semantic_weight, w2))
        <= PositionOf(pid, rank_results_with(db, cands, semantic_weight, w1))

\* C23 as stated: for any candidates and any product P whose behaviour
\* score exceeds the average behaviour score of the other candidates,
\* raising behavior_weight with semantic_weight fixed never moves P to a
\* later position of rank_results.
C23_MonotoneAboveAverage ==
  [][SearchAnswers =>
       LET cands == VectorSearch(rankIn.store,
                                 CandidatesRequested(rankIn.top_k))
       IN \A pid \in PidsOf(cands) :
            AboveAverage(scores, cands, pid)
              => NotLoweredByWeight(scores, cands, pid)]_vars

\* C23, amended: the same for a product P whose behaviour score is at
\* least that of every other candidate.
C23_MonotoneAboveAll ==
  [][SearchAnswers =>
       LET cands == VectorSearch(rankIn.store,
                                 CandidatesRequested(rankIn.top_k))
       IN /\ rank_results_with(scores, cands, semantic_weight, behavior_weight)
              = rankOut'.ranked
          /\ \A pid \in PidsOf(cands) :
               AtLeastAll(scores, cands, pid)
                 => NotLoweredByWeight(scores, cands, pid)]_vars

\* C23 witness: a search has ranked three candidates; the one with the
\* highest behaviour score has the lowest similarity and is last.
C23_Witness ==
  /\ rankOut.answered
  /\ Len(rankOut.ranked) = 3
  /\ rankOut.ranked[3].behavior_score = Rat(9, 10)
  /\ rankOut.ranked[3].semantic_score = Rat(-1, 10)
  /\ rankOut.ranked[1].behavior_score = Rat(3, 5)
  /\ rankOut.ranked[2].behavior_score = RZero

\* ------------------------------------------ claims on the stored records
\* C24: in every reachable state there is one BehaviorScore for each
\* existing product that has been ingested, shown or named by an event, and
\* none for a product id that does not exist, also after an event for a
\* deleted or unknown product id has been processed.  (The table is keyed
\* by product_id, a unique column, so there is at most one per id.)
C24_ScoresOnlyForProducts ==
  /\ \A pid \in StoredPids : pid \in Products
  /\ \A pid \in Products :
       (\E i \in 1 .. Len(events) : events[i].pid = pid) => scores[pid] # NoRow

CounterOf(db, pid, f) == IF db[pid] = NoRow THEN 0 ELSE db[pid][f]

\* what an event adds to a raw counter, by the table of the claim
CounterDelta(e, f) ==
  IF e.type = "click" /\ f = "click_count" THEN 1
  ELSE IF e.type = "add_to_cart" /\ f = "cart_count" THEN 1
  ELSE IF e.type = "purchase" /\ f = "purchase_count" THEN 1
  ELSE IF e.type = "dwell_time" /\ f = "total_dwell_time" THEN e.dwell
  ELSE 0

\* C25: process_event changes the counter of its event type and no other
\* raw counter: click, add_to_cart and purchase add 1 to their count,
\* dwell_time adds its seconds to total_dwell_time, search changes none;
\* impression_count is never changed, no other product's record is
\* touched, and an event without product id changes no BehaviorScore.
C25_ProcessEventFrame ==
  [][Len(events') = Len(events) + 1 =>
       LET e == events'[Len(events')]
       IN /\ \A pid \in AllPids : \A f \in CounterFields :
               CounterOf(scores', pid, f) =
                 CounterOf(scores, pid, f)
                   + (IF pid = e.pid THEN CounterDelta(e, f) ELSE 0)
          /\ \A pid \in AllPids : pid # e.pid => scores'[pid] = scores[pid]
          /\ e.pid = None => scores' = scores]_vars

\* C25 witness: a search event naming P1, an event without product id and
\* a dwell of 3 s have been applied; P1 has its impression and click of
\* before and 3 s of dwell.
C25_Witness ==
  /\ Len(events) = 3
  /\ events[1].type = "search" /\ events[1].pid = "P1"
  /\ events[2].pid = None
  /\ events[3].type = "dwell_time" /\ events[3].dwell = 3
  /\ scores["P1"] # NoRow
  /\ scores["P1"].impression_count = 1
  /\ scores["P1"].click_count = 1
  /\ scores["P1"].total_dwell_time = 3

C28_ProcessedCountMonotone ==
  [][/\ processed_count' >= processed_count
     /\ processed_count' = Len(handled')
     /\ processed_count' = acks' - unfinished'
     /\ (Len(handled') = Len(handled) + 1
          => processed_count' = processed_count + 1)
     /\ (Len(handled') = Len(handled)
          => processed_count' = processed_count)]_vars

\* C28 witness: the processor was stopped and started again, and events
\* were counted before and after: the second task is alive, stop() has
\* returned once and three events are counted.
C28_Witness ==
  /\ task = 2
  /\ Alive(2)
  /\ stopCalls >= 1
  /\ processed_count = 3
  /\ \E j \in 1 .. Len(handled) : ~handled[j].ok

\* the Event rows with the id of an event
RowsWithId(rows, id) == {i \in 1 .. Len(rows) : rows[i].id = id}

\* C29: persisting an event and applying it are one atomic unit: when the
\* handling of a dequeued event that names a product ends, either its Event
\* row is stored and its counter effect is in the BehaviorScore, or neither
\* is (a failure in the apply step rolls the Event row back as well).
C29_PersistAndApplyAtomic ==
  [][Len(handled') = Len(handled) + 1 =>
       LET e == Head(queue)
           stored == RowsWithId(events', e.id) # {}
           effect == \A f \in CounterFields :
                       CounterOf(scores', e.pid, f)
                         = CounterOf(scores, e.pid, f) + CounterDelta(e, f)
       IN e.pid # None =>
            \/ /\ stored
               /\ handled'[Len(handled')].ok
               /\ scores'[e.pid] # NoRow
               /\ effect
            \/ /\ ~stored
               /\ ~handled'[Len(handled')].ok
               /\ events' = events
               /\ scores' = scores]_vars

\* C29 witness: one click on P1 was stored and applied, another failed and
\* left neither a row nor a count.
C29_Witness ==
  /\ Len(handled) = 2
  /\ handled[1].ok
  /\ ~handled[2].ok
  /\ Len(events) = 1
  /\ events[1].id = handled[1].id
  /\ events[1].type = "click" /\ events[1].pid = "P1"
  /\ scores["P1"] # NoRow
  /\ scores["P1"].click_count = 1
  /\ RowsWithId(events, handled[2].id) = {}

\* a completed recalculation pass keeps the raw counters in fs of every
\* product at the value the incremental path had accumulated
RecalcKeeps(fs) ==
  lastOp'.op = "recalc" =>
    \A pid \in Products, f \in fs :
      CounterOf(scores', pid, f) = CounterOf(scores, pid, f)

\* C30: with every event handled and no writer running, a pass of
\* recalculate_all_scores leaves every raw counter of every product
\* (impression_count, click_count, cart_count, purchase_count,
\* total_dwell_time) equal to the value accumulated incrementally,
\* impressions recorded by searches included.
C30_RecalcAgreesWithIncremental == [][RecalcKeeps(CounterFields)]_vars

====
